---- MODULE Spec2Model ----
(***************************************************************************)
(* Request dispatch and retry layer of the smartsheet client library:      *)
(* rate_limiter_passthru (core/api.py) driving the transport primitives    *)
(* ss_get / ss_post / ss_put / ss_delete, and the response-shape helper    *)
(* ensure_list_of_dicts (core/toolkit.py).                                 *)
(*                                                                         *)
(* The HTTP server is the environment.  For one call of the dispatcher it  *)
(* answers the first `burst` requests with status 429 and every later      *)
(* request with the answer `final`.                                        *)
(***************************************************************************)
EXTENDS Integers, Sequences, FiniteSets, TLC

(***************************************************************************)
(* Bounds of the model.                                                    *)
(***************************************************************************)
\* largest number of leading 429 answers the server gives within one call
MaxBurst == 5
\* number of jitter values per second: a sleep is counted in units of
\* 1/JitterUnits second, the jitter random() being one of 0..JitterUnits-1
JitterUnits == 2

(***************************************************************************)
(* Python / JSON values.  Every value is a record [t, v]: t is the type    *)
(* tag, v the content as a sequence.                                       *)
(***************************************************************************)
None == [t |-> "NoneType", v |-> <<>>]
PyInt(n) == [t |-> "int", v |-> <<n>>]
PyList(items) == [t |-> "list", v |-> items]
\* a dict is the sequence of its <<key, value>> pairs, keys unique
PyDict(pairs) == [t |-> "dict", v |-> pairs]
\* requests.Response: the object exposing status_code; body is its JSON value
Response(status, body) == [t |-> "Response", v |-> <<status, body>>]

isinstance(x, type) == x.t = type

\* dict.get(key): the value stored under key, None when the key is absent
DictGet(d, key) ==
    IF \E i \in 1..Len(d.v) : d.v[i][1] = key
    THEN d.v[CHOOSE i \in 1..Len(d.v) : d.v[i][1] = key][2]
    ELSE None

(***************************************************************************)
(* Results of a Python call: a returned value or a raised exception.       *)
(***************************************************************************)
NoResult == [kind |-> "none", value |-> None, exc |-> ""]
Return(x) == [kind |-> "returned", value |-> x, exc |-> ""]
Raise(e) == [kind |-> "raised", value |-> None, exc |-> e]

(***************************************************************************)
(* toolkit.ensure_list_of_dicts                                            *)
(***************************************************************************)
\* a plausible slip: an empty list is let through as "already a list"
ensure_list_of_dicts_EmptyOk(list_of_dicts) ==
    IF isinstance(list_of_dicts, "list")
       /\ (Len(list_of_dicts.v) = 0 \/ isinstance(list_of_dicts.v[1], "dict"))
    THEN Return(list_of_dicts)
    ELSE IF isinstance(list_of_dicts, "dict")
         THEN Return(PyList(<<list_of_dicts>>))
         ELSE Raise("ValueError")

\* a plausible slip: every element of the list is required to be a dict
ensure_list_of_dicts_AllDicts(list_of_dicts) ==
    IF isinstance(list_of_dicts, "list")
       /\ Len(list_of_dicts.v) > 0
       /\ \A i \in 1..Len(list_of_dicts.v) : isinstance(list_of_dicts.v[i], "dict")
    THEN Return(list_of_dicts)
    ELSE IF isinstance(list_of_dicts, "dict")
         THEN Return(PyList(<<list_of_dicts>>))
         ELSE Raise("ValueError")

\* try: list whose first element is a dict -> returned as is; an empty list
\* raises IndexError at [0], anything else raises TypeError; both handlers
\* wrap a dict into a list and raise ValueError for every other value
ensure_list_of_dicts(list_of_dicts) ==
    IF isinstance(list_of_dicts, "list")
       /\ Len(list_of_dicts.v) > 0
       /\ isinstance(list_of_dicts.v[1], "dict")
    THEN Return(list_of_dicts)
    ELSE IF isinstance(list_of_dicts, "dict")
         THEN Return(PyList(<<list_of_dicts>>))
         ELSE Raise("ValueError")

(***************************************************************************)
(* Strings that the code inspects character by character (the verb) are    *)
(* sequences of one-character strings; str.lower() maps each character.    *)
(***************************************************************************)
UpperCase == <<"A", "B", "C", "D", "E", "F", "G", "H", "I", "J", "K", "L", "M",
               "N", "O", "P", "Q", "R", "S", "T", "U", "V", "W", "X", "Y", "Z">>
LowerCase == <<"a", "b", "c", "d", "e", "f", "g", "h", "i", "j", "k", "l", "m",
               "n", "o", "p", "q", "r", "s", "t", "u", "v", "w", "x", "y", "z">>
LowerChar(c) ==
    IF \E i \in 1..Len(UpperCase) : UpperCase[i] = c
    THEN LowerCase[CHOOSE i \in 1..Len(UpperCase) : UpperCase[i] = c]
    ELSE c
\* a plausible slip: the verb is compared as the caller wrote it
lower_AsWritten(s) == s

\* str.lower()
lower(s) == [i \in 1..Len(s) |-> LowerChar(s[i])]

get == <<"g", "e", "t">>
delete == <<"d", "e", "l", "e", "t", "e">>
put == <<"p", "u", "t">>
post == <<"p", "o", "s", "t">>

\* the verbs callers pass as `request`
Requests == {get, delete, put, post,
             <<"G", "E", "T">>, <<"P", "o", "s", "t">>,
             <<"p", "a", "t", "c", "h">>, <<"P", "A", "T", "C", "H">>}

(***************************************************************************)
(* The HTTP server's answers.  fault: the request failed at network level  *)
(* (requests raises ConnectionError); json: the body parses as JSON.       *)
(***************************************************************************)
Fault == [fault |-> TRUE, status |-> 0, json |-> FALSE, body |-> None]
Answer(status, body) == [fault |-> FALSE, status |-> status, json |-> TRUE, body |-> body]
NoJson(status) == [fault |-> FALSE, status |-> status, json |-> FALSE, body |-> None]

Statuses == {200, 204, 304, 404, 429, 500}

Row(n) == PyDict(<< <<"id", PyInt(n)>> >>)
Envelope == PyDict(<< <<"data", PyList(<<Row(10)>>)>> >>)
Bodies == << Envelope,                          \* {"data": [{"id": 10}]}
             Row(1),                            \* {"id": 1}
             PyList(<<Row(1), Row(2)>>),        \* [{"id": 1}, {"id": 2}]
             PyList(<<Row(1), PyInt(42)>>),     \* [{"id": 1}, 42]
             PyList(<<PyInt(42), Row(1)>>),     \* [42, {"id": 1}]
             PyList(<<>>),                      \* []
             PyInt(42),                         \* 42
             None >>                            \* null

Finals == {Fault}
          \cup {NoJson(s) : s \in Statuses}
          \cup {Answer(s, Bodies[i]) : s \in Statuses, i \in 1..Len(Bodies)}

\* the body the API sends with a 429: {"errorCode": 4003}
RateLimited == Answer(429, PyDict(<< <<"errorCode", PyInt(4003)>> >>))

(***************************************************************************)
(* Transport primitives: one HTTP call each.  `ans` is the server's answer *)
(* to that call.                                                           *)
(***************************************************************************)
\* requests.Response.raise_for_status raises HTTPError for 4xx and 5xx
raise_for_status(ans) == 400 <= ans.status /\ ans.status < 600

\* a plausible slip: no except clause, the HTTPError leaves the primitive
ss_delete_NoExcept(ans) ==
    IF ans.fault THEN Raise("ConnectionError")
    ELSE IF raise_for_status(ans) THEN Raise("HTTPError")
    ELSE IF ~ans.json THEN Raise("JSONDecodeError")
    ELSE Return(ans.body)

ss_delete(ans) ==
    IF ans.fault THEN Raise("ConnectionError")
    ELSE IF raise_for_status(ans) THEN Return(None)
    ELSE IF ~ans.json THEN Raise("JSONDecodeError")
    ELSE Return(ans.body)

\* a plausible slip: raise_for_status() is not called, so the body of an
\* error answer is handled like a success
ss_get_NoRaise(ans, return_all) ==
    IF ans.fault THEN Raise("ConnectionError")
    ELSE IF ~return_all
         THEN IF ~ans.json THEN Raise("JSONDecodeError")
              ELSE ensure_list_of_dicts(ans.body)
         ELSE Return(Response(ans.status, IF ans.json THEN ans.body ELSE None))

\* a plausible slip: return_all also goes through the coercion
ss_get_AlwaysCoerce(ans, return_all) ==
    IF ans.fault THEN Raise("ConnectionError")
    ELSE IF raise_for_status(ans) THEN Return(None)
    ELSE IF ~ans.json THEN Raise("JSONDecodeError")
    ELSE ensure_list_of_dicts(ans.body)

\* a plausible slip: the ValueError of the coercion is caught like an HTTP
\* error and becomes the failure value
ss_get_CatchValueError(ans, return_all) ==
    IF ans.fault THEN Raise("ConnectionError")
    ELSE IF raise_for_status(ans) THEN Return(None)
    ELSE IF ~return_all
         THEN IF ~ans.json THEN Raise("JSONDecodeError")
              ELSE IF ensure_list_of_dicts(ans.body).kind = "raised"
                   THEN Return(None)
                   ELSE ensure_list_of_dicts(ans.body)
         ELSE Return(Response(ans.status, IF ans.json THEN ans.body ELSE None))

ss_get(ans, return_all) ==
    IF ans.fault THEN Raise("ConnectionError")
    ELSE IF raise_for_status(ans) THEN Return(None)
    ELSE IF ~return_all
         THEN IF ~ans.json THEN Raise("JSONDecodeError")
              ELSE ensure_list_of_dicts(ans.body)
         ELSE Return(Response(ans.status, IF ans.json THEN ans.body ELSE None))

\* a plausible slip: a body without 'data' is returned whole
\* (.get('data', body))
ss_post_WholeBody(ans, return_all) ==
    IF ans.fault THEN Raise("ConnectionError")
    ELSE IF raise_for_status(ans) THEN Return(None)
    ELSE IF ~ans.json THEN Raise("JSONDecodeError")
    ELSE IF return_all THEN Return(ans.body)
    ELSE IF isinstance(ans.body, "dict")
         THEN IF DictGet(ans.body, "data") = None THEN Return(ans.body)
              ELSE Return(DictGet(ans.body, "data"))
    ELSE Raise("AttributeError")

ss_post(ans, return_all) ==
    IF ans.fault THEN Raise("ConnectionError")
    ELSE IF raise_for_status(ans) THEN Return(None)
    ELSE IF ~ans.json THEN Raise("JSONDecodeError")
    ELSE IF return_all THEN Return(ans.body)
    ELSE IF isinstance(ans.body, "dict") THEN Return(DictGet(ans.body, "data"))
    ELSE Raise("AttributeError")

\* a plausible slip: the two arms of the conditional expression are swapped
\* (as the docstring of ss_post words it)
ss_put_Swapped(ans, return_all) ==
    IF ans.fault THEN Raise("ConnectionError")
    ELSE IF raise_for_status(ans) THEN Return(None)
    ELSE IF ~ans.json THEN Raise("JSONDecodeError")
    ELSE IF ~return_all THEN Return(ans.body)
    ELSE IF isinstance(ans.body, "dict") THEN Return(DictGet(ans.body, "data"))
    ELSE Raise("AttributeError")

ss_put(ans, return_all) ==
    IF ans.fault THEN Raise("ConnectionError")
    ELSE IF raise_for_status(ans) THEN Return(None)
    ELSE IF ~ans.json THEN Raise("JSONDecodeError")
    ELSE IF return_all THEN Return(ans.body)
    ELSE IF isinstance(ans.body, "dict") THEN Return(DictGet(ans.body, "data"))
    ELSE Raise("AttributeError")

(***************************************************************************)
(* Process-wide configuration (core/constants.py) and the upload           *)
(* primitives.  A Python dict of strings is a function on its keys.        *)
(***************************************************************************)
Constants0 ==
    [ACCESS_TOKEN_SS |-> "your access token",
     API_HEADER_SS |-> ("Authorization" :> "Bearer your access token"
                        @@ "Content-Type" :> "application/json"
                        @@ "cache-control" :> "no-cache"
                        @@ "Smartsheet-Change-Agent" :> "splice-agent")]

MimeTypes == {"application/pdf", "image/png"}

\* a plausible slip: the upload headers are made by updating the shared
\* header dict in place
create_upload_header_InPlace(c, mime_type) ==
    [headers |-> [c.API_HEADER_SS EXCEPT !["Content-Type"] = mime_type],
     globals |-> [c EXCEPT !.API_HEADER_SS =
                     [c.API_HEADER_SS EXCEPT !["Content-Type"] = mime_type]]]

\* builds a new dict from the token and the MIME type; `globals` is the
\* configuration as the call leaves it
create_upload_header(c, mime_type) ==
    [headers |-> ("Authorization" :> "Bearer your access token"
                  @@ "Content-Type" :> mime_type
                  @@ "Content-Disposition" :> "attachment; filename"),
     globals |-> c]

\* The upload primitives return [res, sent]: the result of the call and the
\* number of HTTP requests it sent.  open() fails before anything is sent;
\* every requests exception (network fault, HTTPError of raise_for_status,
\* a body that is not JSON) is caught by `except RequestException`, after
\* which the function ends without a return statement, i.e. returns None.

\* a plausible slip: FileNotFoundError is handled like the other errors
ss_post_upload_Swallow(exists, ans) ==
    IF ~exists THEN [res |-> Return(None), sent |-> 0]
    ELSE IF ans.fault \/ raise_for_status(ans) \/ ~ans.json
         THEN [res |-> Return(None), sent |-> 1]
         ELSE [res |-> Return(ans.body), sent |-> 1]

ss_post_upload(exists, ans) ==
    IF ~exists THEN [res |-> Raise("FileNotFoundError"), sent |-> 0]
    ELSE IF ans.fault \/ raise_for_status(ans) \/ ~ans.json
         THEN [res |-> Return(None), sent |-> 1]
         ELSE [res |-> Return(ans.body), sent |-> 1]

ss_put_upload(exists, ans) ==
    IF ~exists THEN [res |-> Raise("FileNotFoundError"), sent |-> 0]
    ELSE IF ans.fault \/ raise_for_status(ans) \/ ~ans.json
         THEN [res |-> Return(None), sent |-> 1]
         ELSE [res |-> Return(ans.body), sent |-> 1]

(***************************************************************************)
(* rate_limiter_passthru                                                   *)
(***************************************************************************)
max_attempts == 5

\* a plausible slip: the verb is not validated
ValidVerb_Any(r) == TRUE

\* `r not in ('get', 'delete', 'put', 'post')` is what raises ValueError
ValidVerb(r) == r \in {get, delete, put, post}

\* the if/elif chain that picks the primitive; a verb matching no branch
\* leaves `response` unbound, which the next line reads
Primitive(r, ans, return_all) ==
    IF r = delete THEN ss_delete(ans)
    ELSE IF r = get THEN ss_get(ans, return_all)
    ELSE IF r = put THEN ss_put(ans, return_all)
    ELSE IF r = post THEN ss_post(ans, return_all)
    ELSE Raise("UnboundLocalError")

(***************************************************************************)
(* What each branch hands to its primitive, and the HTTP request the       *)
(* primitive builds from it.  Keyword arguments are a sequence of          *)
(* <<name, value>> pairs.                                                  *)
(***************************************************************************)
Query == PyDict(<< <<"page", PyInt(2)>> >>)
\* values callers pass as post_data: nothing, or a mapping
PostDatas == {None, Row(1)}
\* extra keyword arguments callers pass: none, or params=...
NoKwargs == <<>>
Kwargs == {NoKwargs, << <<"params", Query>> >>}

\* a plausible slip: no branch forwards the extra keyword arguments
Forwarded_None(r, kw) == NoKwargs

\* the extra keyword arguments the branch of verb r passes on: the get branch
\* passes none, the others pass **kwargs
Forwarded(r, kw) == IF r = get THEN NoKwargs ELSE kw

\* ss_delete and ss_get take no **kwargs: a keyword they do not name is a
\* TypeError at the call; ss_post and ss_put take any
Accepts(r, kw) == r \in {delete, get} => kw = NoKwargs

\* the request handed to requests.delete / get / put / post: the get branch
\* gives post_data as params; put and post give it as the JSON payload and
\* add the forwarded keyword arguments
NoRequest == [method |-> <<>>, params |-> None, json |-> None]
HttpRequest(r, data, kw) ==
    IF r = delete THEN [method |-> r, params |-> None, json |-> None]
    ELSE IF r = get THEN [method |-> r, params |-> data, json |-> None]
    ELSE [method |-> r, params |-> DictGet(PyDict(kw), "params"), json |-> data]

(***************************************************************************)
(* sheet.clear_sheet: the row ids of the sheet are put into the URLs of    *)
(* delete requests.  A URL is its length and the row ids appended to it.   *)
(***************************************************************************)
MaxRows == 3
RowIds == {7, 42, 108}
Digits == <<"0", "1", "2", "3", "4", "5", "6", "7", "8", "9">>
\* str(n) of a non-negative int
RECURSIVE Str(_)
Str(n) == IF n < 10 THEN <<Digits[n + 1]>>
          ELSE Str(n \div 10) \o <<Digits[(n % 10) + 1]>>

\* the rows get_sheet reports: up to MaxRows distinct row ids, in any order
Sheets ==
    {rows \in UNION {[1..n -> RowIds] : n \in 0..MaxRows} :
        \A i, j \in 1..Len(rows) : rows[i] = rows[j] => i = j}

\* len(SS_BASE_URL + SS_SHEET_URL + f'{sheet_id}/rows?ids=') for sheet_id '1'
PrefixLen == 49
\* max_url_len: the default, and limits that leave room for no row id, for
\* one or two, and for two or three
MaxUrlLens == {4000, PrefixLen, PrefixLen + 4, PrefixLen + 7}

\* the answers a delete of rows gets in the model
DeleteAnswers == {Fault, RateLimited, Answer(200, Row(1)), Answer(404, Row(1))}

\* the inner while loop: row ids are popped from the end of del_row_ids and
\* appended to the URL while the next one fits
RECURSIVE Fill(_, _, _)
Fill(url, ids, max_url_len) ==
    IF ids # <<>> /\ url.len + Len(ids[Len(ids)]) + 1 < max_url_len
    THEN Fill([len |-> url.len + Len(ids[Len(ids)]) + 1,
               ids |-> Append(url.ids, ids[Len(ids)])],
              SubSeq(ids, 1, Len(ids) - 1), max_url_len)
    ELSE [url |-> url, del_row_ids |-> ids]

\* clear_sheet before it is called
Clear0 == [pc |-> "idle", rows |-> <<>>, del_row_ids |-> <<>>, max_url_len |-> 4000,
           urls |-> <<>>, result |-> NoResult]

\* a plausible slip: an object without a status code counts as rate limited
EffectiveCode_Default429(resp) == IF isinstance(resp, "Response") THEN resp.v[1] ELSE 429

\* response.status_code if hasattr(response, 'status_code') else 200
EffectiveCode(resp) == IF isinstance(resp, "Response") THEN resp.v[1] ELSE 200

\* a plausible slip: every status other than 200 is retried
Verdict_RetryNon200(resp) ==
    IF resp = None THEN "abort"
    ELSE IF EffectiveCode(resp) # 200 THEN "backoff"
    ELSE "success"

\* a plausible slip: a missing response is retried like a rate limit
Verdict_RetryNone(resp) ==
    IF resp = None THEN "backoff"
    ELSE IF EffectiveCode(resp) = 429 THEN "backoff"
    ELSE IF EffectiveCode(resp) # 200 THEN "error"
    ELSE "success"

\* a plausible slip: every 2xx status counts as success
Verdict_Any2xx(resp) ==
    IF resp = None THEN "abort"
    ELSE IF EffectiveCode(resp) = 429 THEN "backoff"
    ELSE IF EffectiveCode(resp) < 200 \/ EffectiveCode(resp) >= 300 THEN "error"
    ELSE "success"

\* what the loop body does with the primitive's return value
Verdict(resp) ==
    IF resp = None THEN "abort"
    ELSE IF EffectiveCode(resp) = 429 THEN "backoff"
    ELSE IF EffectiveCode(resp) # 200 THEN "error"
    ELSE "success"

\* a plausible slip: off by one in the retry budget
LoopTest_OffByOne(c, a) == c = 429 /\ a <= max_attempts

\* while code == 429 and attempts < max_attempts
LoopTest(c, a) == c = 429 /\ a < max_attempts

RECURSIVE Pow2(_)
Pow2(n) == IF n = 0 THEN 1 ELSE 2 * Pow2(n - 1)

\* a plausible slip: the counter is incremented before the sleep is computed
Backoff_AfterIncrement(a, jitter) == Pow2(a + 1) * JitterUnits + jitter

\* (2 ** attempts) + random(), in units of 1/JitterUnits second
Backoff(a, jitter) == Pow2(a) * JitterUnits + jitter

VARIABLES
    pc,          \* "idle", "loop" (about to invoke), "inspect", "done"
    request,     \* the verb as passed by the caller
    return_all,
    r,           \* request.lower()
    code,
    attempts,
    response,    \* what the primitive returned
    prim,        \* result of the last primitive invocation (returned / raised)
    outcome,     \* result of the dispatcher call (returned / raised)
    calls,       \* primitive invocations of this call
    httpCalls,   \* HTTP requests sent during this call
    sleeps,      \* durations of the time.sleep calls of this call
    burst,       \* server: number of leading 429 answers
    final,       \* server: its answer to every later request
    prev,        \* outcome of the caller's previous dispatcher call
    entry,       \* the core function the caller entered, and its file argument
    constants,   \* the module-level configuration of core/constants.py
    threads,     \* locals of the calls that run concurrently, one per thread
    post_data,   \* the post_data argument of the call
    kwargs,      \* the extra keyword arguments of the call
    sent,        \* the HTTP request the primitive last handed to requests
    clear        \* clear_sheet: its locals, the URLs it passed on, its result

vars == <<pc, request, return_all, r, code, attempts, response, prim, outcome,
          calls, httpCalls, sleeps, burst, final, prev, entry, constants, threads,
          post_data, kwargs, sent, clear>>

\* the variables of the single caller
single == <<pc, request, return_all, r, code, attempts, response, prim, outcome,
            calls, httpCalls, sleeps, burst, final, prev, entry, constants,
            post_data, kwargs, sent, clear>>

\* the same without clear_sheet's own state
single_but_clear ==
    <<pc, request, return_all, r, code, attempts, response, prim, outcome,
      calls, httpCalls, sleeps, burst, final, prev, entry, constants,
      post_data, kwargs, sent>>

Threads == {1, 2}
\* the frame of a rate_limiter_passthru call: its locals, what it has done
\* (calls, nsleeps), the results its primitive gave it (seen), and whether
\* another call was in progress when it started (overlap)
Frame0 == [pc |-> "idle", code |-> 429, attempts |-> 0, response |-> None,
           outcome |-> NoResult, calls |-> 0, nsleeps |-> 0, seen |-> <<>>,
           overlap |-> FALSE]

\* fn: the function entered; exists: the local file of an upload exists;
\* params: ss_post_upload was given query parameters
NoEntry == [fn |-> "none", exists |-> TRUE, params |-> FALSE]
Entered(fn) == [fn |-> fn, exists |-> TRUE, params |-> FALSE]

\* the server's answer to the n-th HTTP request of the call
ServerAnswer(n) == IF n <= burst THEN RateLimited ELSE final
\* its answer to the last request sent
LastAnswer == ServerAnswer(httpCalls)

\* how the server treated the call, judged by its last answer
Class ==
    IF httpCalls = 0 THEN "none"
    ELSE IF LastAnswer.fault THEN "transport"
    ELSE IF LastAnswer.status = 429 THEN "ratelimited"
    ELSE IF LastAnswer.status = 200 THEN "ok"
    ELSE IF LastAnswer.status >= 400 THEN "httperror"
    ELSE "other"

Summary == [kind |-> outcome.kind, class |-> Class, value |-> outcome.value]

Init ==
    /\ pc = "idle"
    /\ request = get
    /\ return_all = FALSE
    /\ r = get
    /\ code = 429
    /\ attempts = 0
    /\ response = None
    /\ prim = NoResult
    /\ outcome = NoResult
    /\ calls = 0
    /\ httpCalls = 0
    /\ sleeps = <<>>
    /\ burst = 0
    /\ final = Fault
    /\ prev = [kind |-> "none", class |-> "none", value |-> None]
    /\ entry = NoEntry
    /\ constants = Constants0
    /\ threads = [i \in Threads |-> Frame0]
    /\ post_data = None
    /\ kwargs = NoKwargs
    /\ sent = NoRequest
    /\ clear = Clear0

\* rate_limiter_passthru is entered: locals, lower(), verb validation
Enter(req, ra) ==
    /\ request' = req
    /\ return_all' = ra
    /\ r' = lower(req)
    /\ code' = 429
    /\ attempts' = 0
    /\ IF ValidVerb(r')
       THEN pc' = "loop" /\ outcome' = NoResult
       ELSE pc' = "done" /\ outcome' = Raise("ValueError")
    /\ entry' = Entered("rate_limiter_passthru")
    /\ UNCHANGED <<response, prim, calls, httpCalls, sleeps, prev, constants, threads,
                   sent>>

\* a caller enters rate_limiter_passthru with a verb and return_all, the
\* other arguments at their defaults; the server's answers are fixed here
Call ==
    /\ pc = "idle"
    /\ \E req \in Requests, ra \in BOOLEAN, b \in 0..MaxBurst, f \in Finals :
          /\ burst' = b
          /\ final' = f
          /\ Enter(req, ra)
    /\ post_data' = None
    /\ kwargs' = NoKwargs
    /\ UNCHANGED clear

\* one pass of the loop up to the primitive's return: the primitive sends one
\* HTTP request; an exception it raises leaves rate_limiter_passthru too
Invoke ==
    /\ pc = "loop"
    /\ calls' = calls + 1
    /\ LET kw == Forwarded(r, kwargs) IN
       IF Accepts(r, kw)
       THEN /\ httpCalls' = httpCalls + 1
            /\ sent' = HttpRequest(r, post_data, kw)
            /\ prim' = Primitive(r, ServerAnswer(httpCalls + 1), return_all)
       ELSE /\ httpCalls' = httpCalls
            /\ sent' = sent
            /\ prim' = Raise("TypeError")
    /\ IF prim'.kind = "raised"
       THEN pc' = "done" /\ outcome' = prim' /\ response' = response
       ELSE pc' = "inspect" /\ outcome' = outcome /\ response' = prim'.value
    /\ UNCHANGED <<request, return_all, r, code, attempts, sleeps, burst, final, prev,
                   entry, constants, threads, post_data, kwargs, clear>>

\* the rest of the loop body, the loop test and the code after the loop
Inspect ==
    /\ pc = "inspect"
    /\ \E jitter \in 0..(JitterUnits - 1) :
          LET v == Verdict(response) IN
          /\ code' = IF v = "abort" THEN code ELSE EffectiveCode(response)
          /\ attempts' = IF v = "backoff" THEN attempts + 1 ELSE attempts
          /\ sleeps' = IF v = "backoff"
                       THEN Append(sleeps, Backoff(attempts, jitter))
                       ELSE sleeps
          /\ IF v = "backoff" /\ LoopTest(code', attempts')
             THEN pc' = "loop" /\ outcome' = outcome
             ELSE /\ pc' = "done"
                  /\ outcome' = IF v = "success" THEN Return(response)
                                ELSE Return(None)
    /\ UNCHANGED <<request, return_all, r, response, prim, calls, httpCalls,
                   burst, final, prev, entry, constants, threads,
                   post_data, kwargs, sent, clear>>

\* the call is over: the caller keeps what it returned or raised, the
\* locals of the call are gone; clear_sheet, when it is the caller, returns
\* that result at once (`return rate_limiter_passthru(...)`)
Leave ==
    /\ pc = "done"
    /\ pc' = "idle"
    /\ prev' = IF entry.fn = "rate_limiter_passthru" THEN Summary ELSE prev
    /\ entry' = NoEntry
    /\ clear' = IF clear.pc = "call"
                THEN [clear EXCEPT !.pc = "returned", !.result = outcome]
                ELSE clear
    /\ post_data' = None
    /\ kwargs' = NoKwargs
    /\ sent' = NoRequest
    /\ UNCHANGED <<constants, threads>>
    /\ request' = get
    /\ return_all' = FALSE
    /\ r' = get
    /\ code' = 429
    /\ attempts' = 0
    /\ response' = None
    /\ prim' = NoResult
    /\ outcome' = NoResult
    /\ calls' = 0
    /\ httpCalls' = 0
    /\ sleeps' = <<>>
    /\ burst' = 0
    /\ final' = Fault

\* a resource-level function (attachment.upload_new_file_to_smartsheet,
\* images.py) calls an upload primitive itself: the whole call
Upload ==
    /\ pc = "idle"
    /\ \E fn \in {"ss_post_upload", "ss_put_upload"}, ex \in BOOLEAN, qp \in BOOLEAN,
          mt \in MimeTypes, f \in Finals :
          LET hdr == create_upload_header(constants, mt)
              up == IF fn = "ss_post_upload" THEN ss_post_upload(ex, f)
                    ELSE ss_put_upload(ex, f)
          IN /\ fn = "ss_put_upload" => ~qp
             /\ entry' = [fn |-> fn, exists |-> ex, params |-> qp]
             /\ constants' = IF fn = "ss_post_upload" THEN hdr.globals ELSE constants
             /\ final' = f
             /\ outcome' = up.res
             /\ httpCalls' = up.sent
    /\ pc' = "done"
    /\ UNCHANGED <<request, return_all, r, code, attempts, response, prim, calls,
                   sleeps, burst, prev, threads, post_data, kwargs, sent, clear>>

\* sheet.create_sheet_in_folder calls ss_post(url, payload, return_all=True)
\* itself: the whole call
DirectPost ==
    /\ pc = "idle"
    /\ \E f \in Finals :
          /\ final' = f
          /\ outcome' = ss_post(f, TRUE)
    /\ entry' = Entered("ss_post")
    /\ httpCalls' = 1
    /\ pc' = "done"
    /\ UNCHANGED <<request, return_all, r, code, attempts, response, prim, calls,
                   sleeps, burst, prev, constants, threads, post_data, kwargs, sent,
                   clear>>

Next == Call \/ Invoke \/ Inspect \/ Leave \/ Upload \/ DirectPost

(***************************************************************************)
(* rate_limiter_passthru on its own.  The primitive is whatever callable   *)
(* the names ss_get, ss_post, ss_put, ss_delete are bound to when the loop *)
(* runs (a test double, say): its result is any value or an exception.     *)
(* Every result of the real primitives is among them, so what holds here   *)
(* holds of the dispatcher with the real primitives too.                   *)
(***************************************************************************)
StubResults ==
    {Raise("ConnectionError"), Return(None),
     Return(Row(1)), Return(PyList(<<Row(1)>>))}
    \cup {Return(Response(s, Envelope)) : s \in Statuses}

StubCall ==
    /\ pc = "idle"
    /\ \E req \in Requests, ra \in BOOLEAN : Enter(req, ra)
    /\ post_data' = None
    /\ kwargs' = NoKwargs
    /\ UNCHANGED <<burst, final, clear>>

\* the loop up to the primitive's return, the primitive being the stub
InvokeStub ==
    /\ pc = "loop"
    /\ calls' = calls + 1
    /\ \E res \in StubResults : prim' = res
    /\ IF prim'.kind = "raised"
       THEN pc' = "done" /\ outcome' = prim' /\ response' = response
       ELSE pc' = "inspect" /\ outcome' = outcome /\ response' = prim'.value
    /\ UNCHANGED <<request, return_all, r, code, attempts, sleeps, httpCalls,
                   burst, final, prev, entry, constants, threads,
                   post_data, kwargs, sent, clear>>

NextStub == StubCall \/ InvokeStub \/ Inspect \/ Leave

SpecStub == Init /\ [][NextStub]_vars

(***************************************************************************)
(* Calls that pass post_data and extra keyword arguments (as               *)
(* share.get_sheet_shares does with params=...); the first answer is the   *)
(* server's final one.                                                     *)
(***************************************************************************)
ArgsCall ==
    /\ pc = "idle"
    /\ \E req \in Requests, ra \in BOOLEAN, data \in PostDatas, kw \in Kwargs,
          f \in Finals :
          /\ burst' = 0
          /\ final' = f
          /\ post_data' = data
          /\ kwargs' = kw
          /\ Enter(req, ra)
    /\ UNCHANGED clear

NextArgs == ArgsCall \/ Invoke \/ Inspect \/ Leave

SpecArgs == Init /\ [][NextArgs]_vars

(***************************************************************************)
(* sheet.clear_sheet driving rate_limiter_passthru with the real           *)
(* primitives.                                                             *)
(***************************************************************************)
\* clear_sheet is called; get_sheet has reported the sheet's rows
ClearSheet ==
    /\ pc = "idle"
    /\ clear.pc \in {"idle", "returned"}
    /\ \E rows \in Sheets, m \in MaxUrlLens :
          clear' = [pc |-> "outer", rows |-> rows,
                    del_row_ids |-> [i \in 1..Len(rows) |-> Str(rows[i])],
                    max_url_len |-> m, urls |-> <<>>, result |-> NoResult]
    /\ UNCHANGED single_but_clear
    /\ UNCHANGED threads

\* the outer loop: with no row id left clear_sheet falls off its end and
\* returns None; otherwise it fills a URL and passes it to
\* rate_limiter_passthru(request='delete')
ClearBatch ==
    /\ clear.pc = "outer"
    /\ pc = "idle"
    /\ IF clear.del_row_ids = <<>>
       THEN /\ clear' = [clear EXCEPT !.pc = "returned", !.result = Return(None)]
            /\ UNCHANGED single_but_clear
       ELSE LET f == Fill([len |-> PrefixLen, ids |-> <<>>], clear.del_row_ids,
                          clear.max_url_len)
            IN /\ clear' = [clear EXCEPT !.pc = "call",
                                         !.del_row_ids = f.del_row_ids,
                                         !.urls = Append(@, f.url.ids)]
               /\ \E a \in DeleteAnswers : burst' = 0 /\ final' = a
               /\ post_data' = None
               /\ kwargs' = NoKwargs
               /\ Enter(delete, FALSE)
    /\ UNCHANGED threads

NextClear == ClearSheet \/ ClearBatch \/ Invoke \/ Inspect \/ Leave

SpecClear == Init /\ [][NextClear]_vars

\* every primitive invocation returns or raises, and the loop goes on
(***************************************************************************)
(* Concurrent calls: each thread runs rate_limiter_passthru (valid verb)   *)
(* with its own frame of locals; the steps of the threads interleave.      *)
(***************************************************************************)
\* a plausible slip: the attempt counter is kept outside the call's frame
\* (thread 1's counter is the one every call reads)
AttemptsOf_Global(t, i) == t[1].attempts

\* `attempts` is a local of the call
AttemptsOf(t, i) == t[i].attempts

Busy(t, i) == t[i].pc \in {"loop", "inspect"}

\* thread i enters rate_limiter_passthru
TCall(i) ==
    /\ threads[i].pc = "idle"
    /\ threads' = [j \in Threads |->
          IF j = i
          THEN [Frame0 EXCEPT !.pc = "loop",
                              !.overlap = \E k \in Threads \ {i} : Busy(threads, k)]
          ELSE [threads[j] EXCEPT !.overlap = @ \/ Busy(threads, j)]]
    /\ UNCHANGED single

\* thread i's primitive returns or raises
TInvoke(i) ==
    /\ threads[i].pc = "loop"
    /\ \E res \in StubResults :
          threads' = [threads EXCEPT ![i] =
             [@ EXCEPT !.calls = @ + 1,
                       !.seen = Append(@, res),
                       !.pc = IF res.kind = "raised" THEN "done" ELSE "inspect",
                       !.outcome = IF res.kind = "raised" THEN res ELSE @,
                       !.response = IF res.kind = "raised" THEN @ ELSE res.value]]
    /\ UNCHANGED single

\* thread i handles the response, tests the loop condition, returns
TInspect(i) ==
    /\ threads[i].pc = "inspect"
    /\ LET f == threads[i]
           v == Verdict(f.response)
           c == IF v = "abort" THEN f.code ELSE EffectiveCode(f.response)
           a == IF v = "backoff" THEN AttemptsOf(threads, i) + 1 ELSE f.attempts
           again == v = "backoff" /\ LoopTest(c, a)
       IN threads' = [threads EXCEPT ![i] =
             [@ EXCEPT !.code = c,
                       !.attempts = a,
                       !.nsleeps = IF v = "backoff" THEN @ + 1 ELSE @,
                       !.pc = IF again THEN "loop" ELSE "done",
                       !.outcome = IF again THEN @
                                   ELSE IF v = "success" THEN Return(f.response)
                                   ELSE Return(None)]]
    /\ UNCHANGED single

NextConc == \E i \in Threads : TCall(i) \/ TInvoke(i) \/ TInspect(i)

SpecConc == Init /\ [][NextConc]_vars

SpecStubFair == SpecStub /\ WF_vars(InvokeStub) /\ WF_vars(Inspect)

Spec == Init /\ [][Next]_vars

TypeOK ==
    /\ pc \in {"idle", "loop", "inspect", "done"}
    /\ attempts \in 0..max_attempts
    /\ calls \in 0..max_attempts

(***************************************************************************)
(* Properties                                                              *)
(***************************************************************************)
Done == pc = "done"
\* a 200 answer carrying the JSON envelope {"data": [{"id": 10}]}
OkAnswer == Answer(200, Envelope)
\* the first n answers of the server are all 429
RateLimitedFor(n) == \A i \in 1..n : ~ServerAnswer(i).fault /\ ServerAnswer(i).status = 429

\* C1: when the server answers 429 exactly k times (0 <= k < 5) and then 200,
\* the call returns Success after exactly k sleeps and k+1 primitive
\* invocations, for every verb.
C1_RetryThenSuccess ==
    (Done /\ lower(request) \in {get, post, put, delete}
          /\ burst < max_attempts /\ final = OkAnswer)
    => /\ outcome.kind = "returned"
       /\ outcome.value # None
       /\ Len(sleeps) = burst
       /\ calls = burst + 1

\* C2: when the server answers 429 to all 5 attempts, the call returns the
\* failure value after exactly 5 primitive invocations and exactly 5 sleeps.
C2_ExhaustedAfterFive ==
    (Done /\ lower(request) \in {get, post, put, delete} /\ RateLimitedFor(max_attempts))
    => /\ outcome = Return(None)
       /\ calls = max_attempts
       /\ Len(sleeps) = max_attempts

\* C3: for every verb, when the first answer is a 200 (carrying a JSON object),
\* the call returns Success at once: one primitive invocation, no sleep, and
\* the returned value is not the failure marker None.
C3_SuccessAtOnce ==
    (Done /\ lower(request) \in {get, post, put, delete}
          /\ burst = 0 /\ ~final.fault /\ final.status = 200
          /\ final.json /\ final.body.t = "dict")
    => /\ outcome.kind = "returned"
       /\ outcome.value # None
       /\ calls = 1
       /\ sleeps = <<>>

\* C4: once the effective status of an attempt is neither 200 nor 429 the call
\* is over with the failure value: that attempt is the last primitive
\* invocation and no sleep follows it; a 404 or 500 on the first attempt ends
\* the call with the failure value after one invocation and no sleep.
C4_NonRetryableEndsCall ==
    /\ (code \notin {200, 429})
       => /\ Done
          /\ outcome = Return(None)
          /\ calls = attempts + 1
          /\ Len(sleeps) = attempts
    /\ (Done /\ calls >= 1 /\ burst = 0 /\ ~final.fault /\ final.status \in {404, 500})
       => /\ outcome = Return(None)
          /\ calls = 1
          /\ sleeps = <<>>
\* a GET with return_all answered 204: the effective status is 204
C4_Witness ==
    Done /\ code = 204 /\ calls = 1 /\ outcome = Return(None) /\ sleeps = <<>>

\* C5: a GET with return_all=false answered 429, 429 and then 200 with body
\* {"data": [{"id": 10}]} ends in Success with the unwrapped list
\* [{"id": 10}], after exactly 2 sleeps and 3 attempts.
C5_EndToEnd ==
    (Done /\ request = get /\ ~return_all /\ burst = 2 /\ final = OkAnswer)
    => /\ outcome = Return(PyList(<<Row(10)>>))
       /\ Len(sleeps) = 2
       /\ calls = 3

\* C6: a call whose verb, lower-cased, is none of get/post/put/delete raises
\* ValueError at once: no primitive invocation, no HTTP request, no sleep.
C6_InvalidVerbRaises ==
    (pc # "idle" /\ lower(request) \notin {get, post, put, delete})
    => /\ Done
       /\ outcome = Raise("ValueError")
       /\ calls = 0
       /\ httpCalls = 0
       /\ sleeps = <<>>
C6_Witness ==
    Done /\ request = <<"p", "a", "t", "c", "h">> /\ outcome = Raise("ValueError")

\* C7: when the primitive raises, the call ends in that step with the
\* exception reaching the caller and without a sleep; when the primitive
\* returned None, the next step ends the call with the failure value, without
\* another primitive invocation, HTTP request or sleep.
C7_AbortOnNoResponse ==
    [][ /\ (pc = "loop" /\ prim'.kind = "raised")
           => (pc' = "done" /\ outcome' = prim' /\ sleeps' = sleeps)
        /\ (pc = "inspect" /\ response = None)
           => /\ pc' = "done"
              /\ outcome' = Return(None)
              /\ calls' = calls
              /\ httpCalls' = httpCalls
              /\ sleeps' = sleeps ]_vars
\* the previous call ended by the primitive's exception, this one by None
C7_Witness ==
    /\ prev.kind = "raised"
    /\ Done /\ prim = Return(None) /\ outcome = Return(None)
    /\ calls = 1 /\ sleeps = <<>>

\* C8: a call whose last answer is a rate limit (429) or an HTTP error status
\* (404, 500) never raises: it returns the failure value None, for every verb
\* and return_all setting.
C8_ExpectedFailuresReturned ==
    (Done /\ calls >= 1 /\ ~LastAnswer.fault /\ LastAnswer.status \in {404, 429, 500})
    => outcome = Return(None)
C8_Witness ==
    Done /\ r = delete /\ LastAnswer = Answer(500, None) /\ outcome = Return(None)

\* the three outcomes of C9, for the summary s of a call that returned
ValidData(s) == s.kind = "returned" /\ s.class = "ok" /\ s.value # None
Exhausted(s) == s.kind = "returned" /\ s.class = "ratelimited"
Permanent(s) == s.kind = "returned" /\ s.class = "httperror"
\* C9 as stated: two calls with different outcomes among 'valid data',
\* 'rate limited on every attempt' and 'failed permanently' never return the
\* same value.
C9_OutcomesDistinct ==
    Done
    => /\ ~(Exhausted(Summary) /\ Permanent(prev) /\ outcome.value = prev.value)
       /\ ~(Permanent(Summary) /\ Exhausted(prev) /\ outcome.value = prev.value)
       /\ ~(ValidData(Summary) /\ (Exhausted(prev) \/ Permanent(prev))
            /\ outcome.value = prev.value)
       /\ ~(ValidData(prev) /\ (Exhausted(Summary) \/ Permanent(Summary))
            /\ outcome.value = prev.value)
\* C9 (amended): a rate-limited call and a call answered with another error
\* status return the same value, the failure marker None; only 'valid data'
\* (a non-None value) is distinguishable from the two failures.
C9_FailuresShareMarker ==
    Done
    => /\ (Exhausted(Summary) \/ Permanent(Summary)) => outcome.value = None
       /\ ((Exhausted(Summary) \/ Permanent(Summary))
           /\ (Exhausted(prev) \/ Permanent(prev))) => outcome.value = prev.value
       /\ ((Exhausted(Summary) \/ Permanent(Summary)) /\ ValidData(prev))
          => outcome.value # prev.value
C9_Witness ==
    Done /\ Exhausted(Summary) /\ Permanent(prev) /\ outcome.value = prev.value

\* C10: ensure_list_of_dicts, applied by ss_get to the JSON body b of a
\* successful answer: a non-empty list whose first element is a dict is
\* returned unchanged, a dict is wrapped into [b], every other value raises
\* ValueError and nothing is returned.
C10_EnsureListOfDicts ==
    (pc \in {"inspect", "done"} /\ r = get /\ ~return_all /\ calls = 1
        /\ ~LastAnswer.fault /\ LastAnswer.status \in {200, 204} /\ LastAnswer.json)
    => LET b == LastAnswer.body IN
       /\ (b.t = "list" /\ Len(b.v) > 0 /\ b.v[1].t = "dict") => prim = Return(b)
       /\ b.t = "dict" => prim = Return([t |-> "list", v |-> <<b>>])
       /\ (b.t \notin {"list", "dict"} \/ (b.t = "list" /\ Len(b.v) = 0)
           \/ (b.t = "list" /\ Len(b.v) > 0 /\ b.v[1].t # "dict"))
          => /\ prim = Raise("ValueError")
             /\ outcome = prim
\* the empty list is refused
C10_Witness ==
    /\ Done /\ r = get /\ ~return_all
    /\ LastAnswer = Answer(200, PyList(<<>>))
    /\ prim = Raise("ValueError")

\* the call in progress is one of rate_limiter_passthru and its primitive has
\* returned or raised once
Dispatched == entry.fn = "rate_limiter_passthru" /\ pc \in {"inspect", "done"} /\ calls = 1
UploadEntered == entry.fn \in {"ss_post_upload", "ss_put_upload"}

\* C11: ss_post_upload and ss_put_upload called with a path that does not
\* exist raise FileNotFoundError to the caller, and no HTTP request is sent.
C11_MissingFileRaises ==
    (Done /\ UploadEntered /\ ~entry.exists)
    => /\ outcome = Raise("FileNotFoundError")
       /\ httpCalls = 0
C11_Witness ==
    /\ Done /\ entry.fn = "ss_post_upload" /\ ~entry.exists
    /\ outcome.kind = "raised" /\ httpCalls = 0

C15_AllThroughDispatcher ==
    httpCalls > 0 => entry.fn = "rate_limiter_passthru"

\* C16: a network-level exception during an upload reaches the caller as an
\* error or a failure value; it does not end in an absent result (None).
C16_UploadFaultSignalled ==
    (Done /\ UploadEntered /\ entry.exists /\ final.fault)
    => (outcome.kind = "raised" \/ outcome.value # None)

\* C18: the process-wide configuration (ACCESS_TOKEN_SS, API_HEADER_SS) always
\* has its start-up value, whatever calls were made.
C18_ConfigUntouched ==
    /\ constants.ACCESS_TOKEN_SS = "your access token"
    /\ constants.API_HEADER_SS["Authorization"] = "Bearer your access token"
    /\ constants.API_HEADER_SS["Content-Type"] = "application/json"
    /\ constants.API_HEADER_SS["cache-control"] = "no-cache"
    /\ constants.API_HEADER_SS["Smartsheet-Change-Agent"] = "splice-agent"
    /\ DOMAIN constants.API_HEADER_SS =
          {"Authorization", "Content-Type", "cache-control", "Smartsheet-Change-Agent"}
\* an upload with its own headers was made after a dispatcher call
C18_Witness ==
    /\ Done /\ entry.fn = "ss_post_upload" /\ httpCalls = 1
    /\ prev.kind = "returned"
    /\ constants.API_HEADER_SS["Content-Type"] = "application/json"

\* C12: every call ends with exactly one outcome, after at most 5 primitive
\* invocations; once the outcome is there, no primitive invocation and no
\* sleep follows for that request.
C12_TerminatesOnce ==
    /\ [](calls <= 5)
    /\ []((pc = "done") <=> (outcome.kind # "none"))
    /\ (pc = "loop") ~> (pc = "done")
    /\ (pc = "inspect") ~> (pc = "done")
    /\ [][pc = "done" => (calls' <= calls /\ Len(sleeps') <= Len(sleeps)
                          /\ (pc' = "done" => outcome' = outcome))]_vars
\* the retry budget is used up: five invocations, five sleeps
C12_Witness ==
    Done /\ calls = 5 /\ Len(sleeps) = 5 /\ attempts = 5 /\ outcome = Return(None)

\* C17: when the object the primitive returned exposes no status code, the
\* effective status is 200 and that object is returned unchanged in the same
\* pass, without a sleep; when it exposes a status code, 200 returns the
\* object, 429 sleeps and counts an attempt, any other code returns None.
C17_EffectiveStatus ==
    [][pc = "inspect" =>
        /\ response.t # "Response"
           => /\ pc' = "done"
              /\ outcome' = Return(response)
              /\ response # None => code' = 200
              /\ sleeps' = sleeps /\ calls' = calls /\ attempts' = attempts
        /\ (response.t = "Response" /\ response.v[1] = 200)
           => (pc' = "done" /\ outcome' = Return(response) /\ code' = 200
               /\ sleeps' = sleeps)
        /\ (response.t = "Response" /\ response.v[1] = 429)
           => (Len(sleeps') = Len(sleeps) + 1 /\ attempts' = attempts + 1
               /\ code' = 429)
        /\ (response.t = "Response" /\ response.v[1] \notin {200, 429})
           => (pc' = "done" /\ outcome' = Return(None) /\ code' = response.v[1]
               /\ sleeps' = sleeps) ]_vars
\* an unwrapped body (a list) came back and was returned as it is
C17_Witness ==
    /\ Done /\ entry.fn = "rate_limiter_passthru" /\ calls = 1
    /\ response.t = "list" /\ code = 200
    /\ outcome = Return(response) /\ sleeps = <<>>

\* C20: within one call the primitive is invoked again only after an
\* invocation that yielded status 429, and only while fewer than 5 attempts
\* were made; every sleep directly follows an attempt with status 429.
C20_OnlyRateLimitRetried ==
    [][ /\ (calls' = calls + 1 /\ calls >= 1)
           => /\ prim = Return(response)
              /\ response.t = "Response" /\ response.v[1] = 429
              /\ calls < 5
        /\ (Len(sleeps') > Len(sleeps))
           => /\ pc = "inspect"
              /\ prim = Return(response)
              /\ response.t = "Response" /\ response.v[1] = 429 ]_vars
\* a second invocation was made, after one sleep
C20_Witness ==
    pc = "inspect" /\ calls = 2 /\ Len(sleeps) = 1 /\ attempts = 1

\* what a call running alone does with the results `seen` its primitive gave
\* it, starting at attempt a: its attempt counter, sleeps and outcome
RECURSIVE Alone(_, _)
Alone(seen, a) ==
    IF seen = <<>> THEN [attempts |-> a, nsleeps |-> a, outcome |-> NoResult]
    ELSE LET x == Head(seen) IN
         IF x.kind = "raised" THEN [attempts |-> a, nsleeps |-> a, outcome |-> x]
         ELSE IF x.value.t = "Response" /\ x.value.v[1] = 429
              THEN IF a + 1 < 5 THEN Alone(Tail(seen), a + 1)
                   ELSE [attempts |-> 5, nsleeps |-> 5, outcome |-> Return(None)]
         ELSE IF x.value.t = "Response" /\ x.value.v[1] # 200
              THEN [attempts |-> a, nsleeps |-> a, outcome |-> Return(None)]
         ELSE [attempts |-> a, nsleeps |-> a, outcome |-> Return(x.value)]

\* C19: under every interleaving of two calls, the attempt counter, the
\* number of sleeps and the outcome of a finished call are those of a call
\* that received the same results running alone.
C19_CallsIndependent ==
    \A i \in Threads :
       threads[i].pc = "done"
       => [attempts |-> threads[i].attempts, nsleeps |-> threads[i].nsleeps,
           outcome |-> threads[i].outcome] = Alone(threads[i].seen, 0)
\* two overlapping calls finished after different numbers of retries
C19_Witness ==
    /\ threads[1].pc = "done" /\ threads[2].pc = "done"
    /\ threads[1].overlap /\ threads[2].overlap
    /\ threads[1].attempts = 1 /\ threads[2].attempts = 3
    /\ threads[2].outcome.kind = "returned" /\ threads[2].outcome.value # None

\* C21: the attempt counter starts at 0 and the sleep after the 429 seen at
\* attempt a (a = 0..4) lasts 2^a + jitter with 0 <= jitter < 1, so it lies in
\* [2^a, 2^a + 1); the sleeps of one call are strictly increasing, their
\* integer parts being 1, 2, 4, 8, 16; the counter is incremented only after
\* the sleep (the sleep is computed from the counter's value before it).
C21_BackoffDurations ==
    /\ [](/\ Len(sleeps) <= 5
          /\ \A i \in 1..Len(sleeps) :
                /\ 2^(i - 1) * JitterUnits <= sleeps[i]
                /\ sleeps[i] < (2^(i - 1) + 1) * JitterUnits
                /\ sleeps[i] \div JitterUnits = <<1, 2, 4, 8, 16>>[i]
          /\ \A i \in 1..(Len(sleeps) - 1) : sleeps[i] < sleeps[i + 1])
    /\ [][Len(sleeps') = Len(sleeps) + 1
          => /\ attempts \in 0..4
             /\ sleeps'[Len(sleeps')] \div JitterUnits = 2^attempts
             /\ attempts' = attempts + 1]_vars
\* five sleeps were made, the first with the largest jitter, the last with none
C21_Witness ==
    /\ Len(sleeps) = 5
    /\ sleeps[1] = 2 * JitterUnits - 1
    /\ sleeps[5] = 16 * JitterUnits

\* C22: when clear_sheet returns, every row id of the sheet has been part of
\* the URL of some delete request it passed to rate_limiter_passthru, for
\* every set of row ids and every max_url_len.
C22_EveryRowDeleted ==
    (clear.pc = "returned" /\ clear.result.kind = "returned")
    => \A i \in 1..Len(clear.rows) :
          \E j \in 1..Len(clear.urls) :
             \E k \in 1..Len(clear.urls[j]) : clear.urls[j][k] = Str(clear.rows[i])

C25_UncoercibleBodyRaises ==
    (/\ Dispatched /\ r = get /\ ~return_all /\ calls = 1
     /\ ~LastAnswer.fault /\ LastAnswer.status < 400 /\ LastAnswer.json
     /\ LastAnswer.body.t # "dict"
     /\ ~(/\ LastAnswer.body.t = "list"
          /\ Len(LastAnswer.body.v) > 0
          /\ LastAnswer.body.v[1].t = "dict"))
    => /\ Done
       /\ prim = Raise("ValueError")
       /\ outcome = Raise("ValueError")
       /\ httpCalls = 1 /\ sleeps = <<>> /\ attempts = 0
\* a get was answered 200 [] and the call raised ValueError
C25_Witness ==
    /\ Done /\ Dispatched /\ r = get /\ ~return_all
    /\ LastAnswer = Answer(200, PyList(<<>>))
    /\ outcome = Raise("ValueError") /\ calls = 1

\* C26 as stated: a get answered with a 2xx status other than 200 returns
\* the failure marker with return_all = true, and with return_all = false
\* returns the unwrapped answer as a success, whatever the answer carries.
C26_Other2xxAlways ==
    (/\ Dispatched /\ r = get /\ Done /\ calls = 1
     /\ ~LastAnswer.fault /\ LastAnswer.status \in 201..299)
    => /\ return_all => outcome = Return(None)
       /\ ~return_all => (outcome.kind = "returned" /\ outcome.value # None)

\* C26 (amended): a get answered with a 2xx status other than 200 ends, with
\* return_all = true, in the failure marker None (the status is read and is
\* not 200); with return_all = false and a JSON body that is a mapping or a
\* list starting with a mapping, the body is unwrapped, the status is taken
\* to be 200 and the list is returned.
C26_Other2xx ==
    (/\ Dispatched /\ r = get /\ Done /\ calls = 1
     /\ ~LastAnswer.fault /\ LastAnswer.status \in 201..299)
    => /\ sleeps = <<>>
       /\ return_all => (outcome = Return(None) /\ code = LastAnswer.status)
       /\ (/\ ~return_all /\ LastAnswer.json
           /\ \/ LastAnswer.body.t = "dict"
              \/ /\ LastAnswer.body.t = "list"
                 /\ Len(LastAnswer.body.v) > 0
                 /\ LastAnswer.body.v[1].t = "dict")
          => /\ outcome.kind = "returned"
             /\ outcome.value.t = "list"
             /\ code = 200
\* a get with return_all = true was answered 204 and the call returned None
C26_Witness ==
    /\ Done /\ Dispatched /\ r = get /\ return_all
    /\ LastAnswer.status = 204 /\ ~LastAnswer.fault
    /\ response.t = "Response" /\ outcome = Return(None) /\ code = 204

C28_VerbCaseInsensitive ==
    /\ (entry.fn = "rate_limiter_passthru" /\ request = <<"G", "E", "T">>)
       => /\ r = get
          /\ ~(pc = "done" /\ calls = 0)
          /\ calls >= 1 => prim = ss_get(LastAnswer, return_all)
    /\ (entry.fn = "rate_limiter_passthru" /\ request = <<"P", "o", "s", "t">>)
       => /\ r = post
          /\ ~(pc = "done" /\ calls = 0)
          /\ calls >= 1 => prim = ss_post(LastAnswer, return_all)
\* "Post" was dispatched to ss_post, which returned the "data" of the answer
C28_Witness ==
    /\ Done /\ Dispatched /\ request = <<"P", "o", "s", "t">> /\ ~return_all
    /\ LastAnswer = Answer(200, Envelope)
    /\ outcome = Return(PyList(<<Row(10)>>))

\* C29: throughout a call 0 <= attempts <= 5, the number of sleeps equals
\* attempts, the number of primitive invocations is attempts or attempts + 1,
\* and the primitive is invoked only while attempts < 5; the loop is left
\* without a return statement only when attempts = 5.
C29_LoopInvariant ==
    /\ [](/\ attempts \in 0..5
          /\ Len(sleeps) = attempts
          /\ calls \in {attempts, attempts + 1})
    /\ [][calls' = calls + 1 => attempts < 5]_vars
    /\ [][(/\ pc = "inspect" /\ pc' = "done"
           /\ response.t = "Response" /\ response.v[1] = 429)
          => (attempts' = 5 /\ outcome' = Return(None))]_vars
\* the fifth invocation has returned, four sleeps were made
C29_Witness ==
    pc = "inspect" /\ attempts = 4 /\ calls = 5 /\ Len(sleeps) = 4

\* C30: ensure_list_of_dicts is idempotent on what it returns, and it looks
\* at the first element only: a list whose first element is a mapping is
\* returned unchanged even when later elements are not mappings.
C30_CoercionIdempotent ==
    (/\ Dispatched /\ r = get /\ ~return_all /\ calls = 1
     /\ ~LastAnswer.fault /\ LastAnswer.status < 400 /\ LastAnswer.json)
    => /\ prim.kind = "returned" => ensure_list_of_dicts(prim.value) = prim
       /\ (/\ LastAnswer.body.t = "list"
           /\ Len(LastAnswer.body.v) > 0
           /\ LastAnswer.body.v[1].t = "dict")
          => prim = Return(LastAnswer.body)
\* [{"id": 1}, 42] went through the coercion unchanged
C30_Witness ==
    /\ Done /\ Dispatched /\ r = get /\ ~return_all
    /\ LastAnswer = Answer(200, PyList(<<Row(1), PyInt(42)>>))
    /\ outcome = Return(PyList(<<Row(1), PyInt(42)>>))

====
